---------------------------- MODULE Spec2Model ----------------------------
(***************************************************************************)
(* A model of examples/scripts/monitor.py, the CGMiner-RS monitoring       *)
(* script: class CGMinerMonitor (get_status, get_devices, get_pools,       *)
(* check_health, check_alerts, send_email_alert,                           *)
(* collect_performance_metrics, generate_report, monitor_continuous) and   *)
(* main().                                                                 *)
(*                                                                         *)
(* Conventions.                                                            *)
(*  - A JSON object field that may be missing is a sequence of length at   *)
(*    most one: <<>> when the key is absent (dict.get gives None or the    *)
(*    default), <<v>> when it is present with value v.                     *)
(*  - The return value of a get_* method is a record whose field `present` *)
(*    is FALSE when the method returned None (requests.RequestException    *)
(*    caught at lines 56-58, 66-68, 76-78).                                *)
(*  - Time is measured in hours.  datetime values are natural numbers,     *)
(*    their ISO strings are <<day, hour of day>> pairs.  Successive        *)
(*    readings of datetime.now() never decrease.                           *)
(*  - Hashrates and temperatures are whole numbers; the float literals of  *)
(*    the source (85.0, 30.0, 15.0) are the integers of the same value.    *)
(*  - Logging changes no state and is left out.                            *)
(*                                                                         *)
(* Lines 21-22 import MimeText and MimeMultipart, names that email.mime    *)
(* does not define (it defines MIMEText and MIMEMultipart), and line 24    *)
(* imports the third-party websocket: the model is of the methods as they  *)
(* run once the module has loaded.                                         *)
(***************************************************************************)
EXTENDS Integers, Sequences, FiniteSets, TLC

(***************************************************************************)
(* Program constants.                                                      *)
(***************************************************************************)
MinTotalHashrate == 30
MaxHardwareErrors == 10
MaxTemperature == 85
MinDeviceHashrate == 15
RetentionHours == 24
HoursPerDay == 24

(***************************************************************************)
(* Bounds of the model.                                                    *)
(***************************************************************************)
MaxDevices == 2
MaxPools == 2
MaxHealthDevices == 5
MaxCycles == 2
MaxCollects == 3

(***************************************************************************)
(* dict.get(key, default) on an optional field.                            *)
(***************************************************************************)
Get(field, default) == IF field = <<>> THEN default ELSE field[1]

\* Python truthiness of dict.get(key) for a numeric field: None and 0 are falsy.
Truthy(field) == field # <<>> /\ field[1] # 0

\* All sequences over S of length at most n.
SeqUpTo(S, n) == UNION {[1..k -> S] : k \in 0..n}

(***************************************************************************)
(* datetime.isoformat() and datetime.fromisoformat().                      *)
(***************************************************************************)
isoformat(t) == <<t \div HoursPerDay, t % HoursPerDay>>

fromisoformat(s) == s[1] * HoursPerDay + s[2]

(***************************************************************************)
(* Payloads.                                                               *)
(***************************************************************************)
\* The `data` object of /api/v1/status.  kind = "null" is a JSON null under
\* the key (status.get('data', {}) then returns None).
StatusData(ms, th, acc, hw) ==
    [kind |-> "object", mining_state |-> ms, total_hashrate |-> th,
     accepted_shares |-> acc, rejected_shares |-> <<0>>,
     hardware_errors |-> hw, active_devices |-> <<1>>, uptime |-> <<3600>>]

NullData == [kind |-> "null"]

\* get_status() returned None.
NoStatus == [present |-> FALSE]

StatusOf(success, data) == [present |-> TRUE, success |-> success, data |-> data]

Device(id, st, temp, hr) ==
    [device_id |-> id, status |-> st, temperature |-> temp, hashrate |-> hr]

Pool(st) == [status |-> st]

\* get_devices() / get_pools() returned None.
NoList == [present |-> FALSE]

ListOf(items) == [present |-> TRUE, data |-> items]

\* `devices or []`, `pools or []` (line 334).
OrEmpty(resp) == IF resp.present THEN resp.data ELSE <<>>

(***************************************************************************)
(* check_alerts (lines 130-211).  An alert is                              *)
(* {'type', 'message', 'timestamp'}; the message is the text of the        *)
(* f-string with the values it embeds.                                     *)
(***************************************************************************)
Alert(type, text, device, value, now) ==
    [type |-> type,
     message |-> [text |-> text, device |-> device, value |-> value],
     timestamp |-> isoformat(now)]

\* Lines 134-140.
ApiDown(status) == ~status.present \/ ~status.success

\* Lines 144-150.
MiningAlerts(data, now) ==
    IF data.mining_state # <<"Running">>
    THEN <<Alert("critical", "Mining not active", <<>>, data.mining_state, now)>>
    ELSE <<>>

\* Lines 152-159.
HashrateAlerts(data, now) ==
    IF Get(data.total_hashrate, 0) < MinTotalHashrate
    THEN <<Alert("warning", "Low total hashrate", <<>>,
                 <<Get(data.total_hashrate, 0)>>, now)>>
    ELSE <<>>

\* A variant of line 163 that compares with >= 10.
HardwareAlertsFromThreshold(data, now) ==
    IF Get(data.hardware_errors, 0) >= MaxHardwareErrors
    THEN <<Alert("warning", "High hardware errors", <<>>,
                 <<Get(data.hardware_errors, 0)>>, now)>>
    ELSE <<>>

\* Lines 161-168.
HardwareAlerts(data, now) ==
    IF Get(data.hardware_errors, 0) > MaxHardwareErrors
    THEN <<Alert("warning", "High hardware errors", <<>>,
                 <<Get(data.hardware_errors, 0)>>, now)>>
    ELSE <<>>

\* A variant of lines 176-182 that compares with >= 85.0.
TemperatureAlertsFromThreshold(device, now) ==
    IF Get(device.temperature, 0) >= MaxTemperature
    THEN <<Alert("critical", "high temperature", <<device.device_id>>,
                 device.temperature, now)>>
    ELSE <<>>

\* Lines 176-182: `if temp and temp > 85.0`.
TemperatureAlerts(device, now) ==
    IF Truthy(device.temperature) /\ device.temperature[1] > MaxTemperature
    THEN <<Alert("critical", "high temperature", <<device.device_id>>,
                 device.temperature, now)>>
    ELSE <<>>

\* A variant of line 186 that compares with the threshold of line 154 (30.0).
DeviceHashrateAlertsTotalThreshold(device, now) ==
    IF Get(device.hashrate, 0) < MinTotalHashrate
    THEN <<Alert("warning", "low hashrate", <<device.device_id>>,
                 <<Get(device.hashrate, 0)>>, now)>>
    ELSE <<>>

\* Lines 184-191.
DeviceHashrateAlerts(device, now) ==
    IF Get(device.hashrate, 0) < MinDeviceHashrate
    THEN <<Alert("warning", "low hashrate", <<device.device_id>>,
                 <<Get(device.hashrate, 0)>>, now)>>
    ELSE <<>>

\* Lines 193-199.
DeviceStatusAlerts(device, now) ==
    IF device.status # "Mining"
    THEN <<Alert("critical", "not mining", <<device.device_id>>,
                 <<device.status>>, now)>>
    ELSE <<>>

\* Lines 171-199: the loop over the devices, from entry i on.
RECURSIVE DeviceAlerts(_, _, _)
DeviceAlerts(devices, i, now) ==
    IF i > Len(devices) THEN <<>>
    ELSE TemperatureAlerts(devices[i], now)
         \o DeviceHashrateAlerts(devices[i], now)
         \o DeviceStatusAlerts(devices[i], now)
         \o DeviceAlerts(devices, i + 1, now)

\* A variant of lines 201-209 without the `if pools:` of line 202.
PoolAlertsOnEmptyList(pools, now) ==
    IF ~\E i \in 1..Len(pools) : pools[i].status = "Connected"
    THEN <<Alert("critical", "No pools connected", <<>>, <<>>, now)>>
    ELSE <<>>

\* Lines 201-209.
PoolAlerts(pools, now) ==
    IF pools # <<>> /\ ~\E i \in 1..Len(pools) : pools[i].status = "Connected"
    THEN <<Alert("critical", "No pools connected", <<>>, <<>>, now)>>
    ELSE <<>>

\* Whether check_alerts raises: data.get on a JSON null (line 145).
check_alerts_raises(status) == ~ApiDown(status) /\ status.data.kind = "null"

\* A variant of check_alerts without the `return alerts` of line 140.
check_alerts_no_early_return(status, devices, pools, now) ==
    (IF ApiDown(status)
     THEN <<Alert("critical", "API not responding", <<>>, <<>>, now)>>
     ELSE MiningAlerts(status.data, now)
          \o HashrateAlerts(status.data, now)
          \o HardwareAlerts(status.data, now))
    \o DeviceAlerts(devices, 1, now)
    \o PoolAlerts(pools, now)

\* A variant of check_alerts with lines 201-209 indented under `if devices:`.
check_alerts_pools_under_devices(status, devices, pools, now) ==
    IF ApiDown(status)
    THEN <<Alert("critical", "API not responding", <<>>, <<>>, now)>>
    ELSE MiningAlerts(status.data, now)
         \o HashrateAlerts(status.data, now)
         \o HardwareAlerts(status.data, now)
         \o DeviceAlerts(devices, 1, now)
         \o (IF devices # <<>> THEN PoolAlerts(pools, now) ELSE <<>>)

\* Lines 130-211.
check_alerts(status, devices, pools, now) ==
    IF ApiDown(status)
    THEN <<Alert("critical", "API not responding", <<>>, <<>>, now)>>
    ELSE MiningAlerts(status.data, now)
         \o HashrateAlerts(status.data, now)
         \o HardwareAlerts(status.data, now)
         \o DeviceAlerts(devices, 1, now)
         \o PoolAlerts(pools, now)


(***************************************************************************)
(* check_health (lines 80-128), as a function of what its three fetches    *)
(* returned.                                                               *)
(***************************************************************************)
\* Line 93: `if status and status.get('success')`.
ApiResponsive(status) == status.present /\ status.success

\* Lines 93-99.
MiningActive(status) ==
    ApiResponsive(status) /\ status.data.mining_state = <<"Running">>

\* A variant of line 102 that compares with >= 30.0.
HashrateOkFromThreshold(status) ==
    ApiResponsive(status) /\ Get(status.data.total_hashrate, 0) >= MinTotalHashrate

\* Lines 93-103.
HashrateOk(status) ==
    ApiResponsive(status) /\ Get(status.data.total_hashrate, 0) > MinTotalHashrate

\* Lines 112-114.
HealthyDevice(device) ==
    /\ device.status = "Mining"
    /\ Get(device.temperature, 0) < MaxTemperature
    /\ Get(device.hashrate, 0) > MinDeviceHashrate

\* Lines 108-115: healthy_devices after the loop, counting from entry i on.
RECURSIVE CountHealthy(_, _)
CountHealthy(devices, i) ==
    IF i > Len(devices) THEN 0
    ELSE (IF HealthyDevice(devices[i]) THEN 1 ELSE 0) + CountHealthy(devices, i + 1)

\* Lines 106-119.  healthy_devices / total_devices >= 0.8 is the exact
\* comparison 10 * healthy_devices >= 8 * total_devices: for lists this short
\* the correctly rounded quotient is >= the double 0.8 exactly when the
\* rational quotient is >= 4/5.
\* A variant of line 117 that compares with > 0.8.
DevicesHealthyAboveEighty(devices) ==
    /\ devices.present
    /\ devices.data # <<>>
    /\ 10 * CountHealthy(devices.data, 1) > 8 * Len(devices.data)

\* Lines 106-119.
DevicesHealthy(devices) ==
    /\ devices.present
    /\ devices.data # <<>>
    /\ Len(devices.data) > 0
    /\ 10 * CountHealthy(devices.data, 1) >= 8 * Len(devices.data)

\* Lines 122-126.
PoolsConnected(pools) ==
    /\ pools.present
    /\ pools.data # <<>>
    /\ Cardinality({i \in 1..Len(pools.data) : pools.data[i].status = "Connected"}) > 0

\* Lines 82-89.
NoHealth ==
    [api_responsive |-> FALSE, mining_active |-> FALSE, devices_healthy |-> FALSE,
     pools_connected |-> FALSE, temperature_ok |-> FALSE, hashrate_ok |-> FALSE]

\* Whether check_health raises: data.get on a JSON null (line 98).
check_health_raises(status) == ApiResponsive(status) /\ status.data.kind = "null"

\* Lines 80-128: the report, from what the three fetches returned.
check_health(status, devices, pools) ==
    [api_responsive |-> ApiResponsive(status),
     mining_active |-> MiningActive(status),
     devices_healthy |-> DevicesHealthy(devices),
     pools_connected |-> PoolsConnected(pools),
     temperature_ok |-> DevicesHealthy(devices),
     hashrate_ok |-> HashrateOk(status)]

(***************************************************************************)
(* The values the remote API is taken to answer with.                      *)
(***************************************************************************)
\* Inputs of check_alerts and check_health: the thresholds and both sides.
StatusInputs ==
    {NoStatus}
    \cup {StatusOf(FALSE, StatusData(<<"Running">>, <<45>>, <<100>>, <<2>>))}
    \cup {StatusOf(TRUE, StatusData(ms, th, <<100>>, hw)) :
            ms \in {<<"Running">>, <<"Stopped">>},
            th \in {<<>>, <<30>>, <<45>>},
            hw \in {<<10>>, <<11>>}}

Temperatures == {<<>>, <<85>>, <<90>>}

DeviceHashrates == {<<>>, <<15>>, <<20>>}

DeviceAttributes == {"Mining", "Idle"} \X Temperatures \X DeviceHashrates

\* The device lists of length at most n; entry i has device_id i.
DeviceLists(n) ==
    UNION {{[i \in 1..k |-> Device(i, f[i][1], f[i][2], f[i][3])] :
              f \in [1..k -> DeviceAttributes]} : k \in 0..n}

PoolLists(n) == SeqUpTo({Pool("Connected"), Pool("Disconnected")}, n)

(***************************************************************************)
(* State.                                                                  *)
(***************************************************************************)
VARIABLES
    pc,                   \* the statement the program is at
    interval,             \* monitor_continuous's argument (args.interval)
    smtp_config,          \* TRUE when main() built a configuration (line 415)
    clock,                \* what datetime.now() returns
    status,               \* local `status` (lines 92, 329)
    devices,              \* local `devices` (lines 106, 330)
    pools,                \* local `pools` (lines 122, 331)
    alerts,               \* local `alerts` (line 334)
    health,               \* local `health` of check_health (line 82)
    last_status,          \* self.last_status (line 35)
    alert_history,        \* self.alert_history (line 36)
    performance_history,  \* self.performance_history (line 37)
    cycle,                \* observer: what the current loop iteration did
    report                \* local `report` of main (line 410)

vars == <<pc, interval, smtp_config, clock, status, devices, pools, alerts,
          health, last_status, alert_history, performance_history, cycle,
          report>>

\* Before the first iteration.
NoCycle ==
    [n |-> 0, start_history |-> <<>>, fetches |-> <<0, 0, 0>>,
     digests |-> 0, delivered |-> <<>>, appended |-> 0, collect_status |-> <<>>,
     raised |-> "none", newest |-> <<>>, cancelled |-> FALSE, persisting |-> 0]

\* __init__ (lines 28-37) and the locals before their first assignment.
InitObject ==
    /\ last_status = <<>>
    /\ alert_history = <<>>
    /\ performance_history = <<>>
    /\ health = NoHealth
    /\ alerts = <<>>
    /\ cycle = NoCycle
    /\ clock = 0
    /\ report = <<>>

(***************************************************************************)
(* check_alerts applied to given arguments.                                *)
(***************************************************************************)
InitAlerts ==
    /\ InitObject
    /\ pc = "check_alerts"
    /\ interval = 0
    /\ smtp_config = FALSE
    /\ status \in StatusInputs
    /\ devices \in {ListOf(d) : d \in DeviceLists(MaxDevices)}
    /\ pools \in {ListOf(p) : p \in PoolLists(MaxPools)}

ApplyCheckAlerts ==
    /\ pc = "check_alerts"
    /\ alerts' = check_alerts(status, devices.data, pools.data, clock)
    /\ pc' = "returned"
    /\ UNCHANGED <<interval, smtp_config, clock, status, devices, pools, health,
                   last_status, alert_history, performance_history, cycle, report>>

NextAlerts == ApplyCheckAlerts

SpecAlerts == InitAlerts /\ [][NextAlerts]_vars

(***************************************************************************)
(* --mode health (lines 393-406): main() calls check_health, which fetches *)
(* the status, the devices and the pools in turn.                          *)
(***************************************************************************)
\* What get_status returns to check_health.
HealthStatuses ==
    {NoStatus,
     StatusOf(FALSE, StatusData(<<"Running">>, <<45>>, <<100>>, <<2>>)),
     StatusOf(TRUE, NullData)}
    \cup {StatusOf(TRUE, StatusData(ms, th, <<100>>, <<2>>)) :
            ms \in {<<"Running">>, <<"Stopped">>}, th \in {<<30>>, <<45>>}}

\* One healthy device, one at each threshold, one without a temperature and
\* one that is not mining.
HealthDeviceAttributes ==
    {<<"Mining", <<60>>, <<20>>>>, <<"Mining", <<85>>, <<20>>>>,
     <<"Mining", <<>>, <<20>>>>, <<"Mining", <<60>>, <<15>>>>,
     <<"Idle", <<60>>, <<20>>>>}

HealthDeviceLists(n) ==
    UNION {{[i \in 1..k |-> Device(i, f[i][1], f[i][2], f[i][3])] :
              f \in [1..k -> HealthDeviceAttributes]} : k \in 0..n}

InitHealth ==
    /\ InitObject
    /\ pc = "health_status"
    /\ interval = 0
    /\ smtp_config = FALSE
    /\ status = NoStatus
    /\ devices = NoList
    /\ pools = NoList

\* Lines 92-103.
HealthGetStatus ==
    /\ pc = "health_status"
    /\ \E s \in HealthStatuses :
          /\ status' = s
          /\ IF check_health_raises(s)
             THEN pc' = "crashed" /\ UNCHANGED health
             ELSE /\ pc' = "health_devices"
                  /\ health' = [health EXCEPT !.api_responsive = ApiResponsive(s),
                                              !.mining_active = MiningActive(s),
                                              !.hashrate_ok = HashrateOk(s)]
    /\ UNCHANGED <<interval, smtp_config, clock, devices, pools, alerts,
                   last_status, alert_history, performance_history, cycle, report>>

\* Lines 106-119.  get_devices raises (line 65, AttributeError) when the body
\* is JSON but not an object.
HealthGetDevices ==
    /\ pc = "health_devices"
    /\ \/ /\ \E d \in {NoList} \cup {ListOf(l) : l \in HealthDeviceLists(MaxHealthDevices)} :
                /\ devices' = d
                /\ health' = [health EXCEPT !.devices_healthy = DevicesHealthy(d),
                                            !.temperature_ok = DevicesHealthy(d)]
          /\ pc' = "health_pools"
       \/ /\ pc' = "crashed"
          /\ UNCHANGED <<devices, health>>
    /\ UNCHANGED <<interval, smtp_config, clock, status, pools, alerts,
                   last_status, alert_history, performance_history, cycle, report>>

\* Lines 122-128.
HealthGetPools ==
    /\ pc = "health_pools"
    /\ \/ /\ \E p \in {NoList} \cup {ListOf(l) : l \in PoolLists(MaxPools)} :
                /\ pools' = p
                /\ health' = [health EXCEPT !.pools_connected = PoolsConnected(p)]
          /\ pc' = "health_returned"
       \/ /\ pc' = "crashed"
          /\ UNCHANGED <<pools, health>>
    /\ UNCHANGED <<interval, smtp_config, clock, status, devices, alerts,
                   last_status, alert_history, performance_history, cycle, report>>

NextHealth == HealthGetStatus \/ HealthGetDevices \/ HealthGetPools

SpecHealth == InitHealth /\ [][NextHealth]_vars

(***************************************************************************)
(* check_alerts and check_health on the same answers of the API: the three *)
(* responses are drawn, check_alerts gets them as monitor_continuous hands *)
(* them over (line 334, `devices or []`, `pools or []`), and check_health  *)
(* gets the same three from its own fetches (lines 92, 106, 122).          *)
(***************************************************************************)
\* A device that is fine for both functions, one without a temperature, and
\* one at, above or below each threshold of lines 112-114, 177, 186 and 194.
SameInputsDeviceAttributes ==
    {<<"Mining", <<60>>, <<20>>>>, <<"Mining", <<>>, <<20>>>>,
     <<"Mining", <<85>>, <<20>>>>, <<"Mining", <<90>>, <<20>>>>,
     <<"Mining", <<60>>, <<15>>>>, <<"Mining", <<60>>, <<10>>>>,
     <<"Mining", <<60>>, <<>>>>, <<"Idle", <<60>>, <<20>>>>}

SameInputsDeviceLists(n) ==
    UNION {{[i \in 1..k |-> Device(i, f[i][1], f[i][2], f[i][3])] :
              f \in [1..k -> SameInputsDeviceAttributes]} : k \in 0..n}

InitSameInputs ==
    /\ InitObject
    /\ pc = "same_alerts"
    /\ interval = 0
    /\ smtp_config = FALSE
    /\ status \in StatusInputs
    /\ devices \in {NoList} \cup {ListOf(d) : d \in SameInputsDeviceLists(MaxDevices)}
    /\ pools \in {NoList} \cup {ListOf(p) : p \in PoolLists(MaxPools)}

\* Line 334.
SameInputsAlerts ==
    /\ pc = "same_alerts"
    /\ alerts' = check_alerts(status, OrEmpty(devices), OrEmpty(pools), clock)
    /\ pc' = "same_health"
    /\ UNCHANGED <<interval, smtp_config, clock, status, devices, pools, health,
                   last_status, alert_history, performance_history, cycle, report>>

\* Lines 80-128.
SameInputsHealth ==
    /\ pc = "same_health"
    /\ health' = check_health(status, devices, pools)
    /\ pc' = "same_returned"
    /\ UNCHANGED <<interval, smtp_config, clock, status, devices, pools, alerts,
                   last_status, alert_history, performance_history, cycle, report>>

NextSameInputs == SameInputsAlerts \/ SameInputsHealth

SpecSameInputs == InitSameInputs /\ [][NextSameInputs]_vars

(***************************************************************************)
(* collect_performance_metrics (lines 247-276), as a function of what its  *)
(* two fetches returned and of the two readings of the clock.              *)
(***************************************************************************)
\* Lines 266-267: the values of `key` over the devices that have a truthy one.
RECURSIVE TruthyValues(_, _, _)
TruthyValues(devs, key, i) ==
    IF i > Len(devs) THEN <<>>
    ELSE (IF Truthy(devs[i][key]) THEN <<Get(devs[i][key], 0)>> ELSE <<>>)
         \o TruthyValues(devs, key, i + 1)

\* A variant of line 258 that reads 'rejected_shares'.
MetricsSwappedShares(data, devs, now) ==
    [timestamp |-> isoformat(now),
     total_hashrate |-> Get(data.total_hashrate, 0),
     accepted_shares |-> Get(data.rejected_shares, 0),
     rejected_shares |-> Get(data.rejected_shares, 0),
     hardware_errors |-> Get(data.hardware_errors, 0),
     active_devices |-> Get(data.active_devices, 0),
     uptime |-> Get(data.uptime, 0),
     device_temperatures |->
        IF devs.present /\ devs.data # <<>>
        THEN <<TruthyValues(devs.data, "temperature", 1)>> ELSE <<>>,
     device_hashrates |->
        IF devs.present /\ devs.data # <<>>
        THEN <<TruthyValues(devs.data, "hashrate", 1)>> ELSE <<>>]

\* Lines 255-267.  The two arrays are keys of the sample only `if devices`.
Metrics(data, devs, now) ==
    [timestamp |-> isoformat(now),
     total_hashrate |-> Get(data.total_hashrate, 0),
     accepted_shares |-> Get(data.accepted_shares, 0),
     rejected_shares |-> Get(data.rejected_shares, 0),
     hardware_errors |-> Get(data.hardware_errors, 0),
     active_devices |-> Get(data.active_devices, 0),
     uptime |-> Get(data.uptime, 0),
     device_temperatures |->
        IF devs.present /\ devs.data # <<>>
        THEN <<TruthyValues(devs.data, "temperature", 1)>> ELSE <<>>,
     device_hashrates |->
        IF devs.present /\ devs.data # <<>>
        THEN <<TruthyValues(devs.data, "hashrate", 1)>> ELSE <<>>]

\* A variant of line 272 with timedelta(hours=48).
RECURSIVE KeepRecentTwoWindows(_, _)
KeepRecentTwoWindows(history, now) ==
    IF history = <<>> THEN <<>>
    ELSE (IF fromisoformat(Head(history).timestamp) > now - RetentionHours - RetentionHours
          THEN <<Head(history)>> ELSE <<>>)
         \o KeepRecentTwoWindows(Tail(history), now)

\* A variant of line 275 that compares with >= cutoff_time.
RECURSIVE KeepRecentInclusive(_, _)
KeepRecentInclusive(history, now) ==
    IF history = <<>> THEN <<>>
    ELSE (IF fromisoformat(Head(history).timestamp) >= now - RetentionHours
          THEN <<Head(history)>> ELSE <<>>)
         \o KeepRecentInclusive(Tail(history), now)

\* Lines 271-276: the samples of `history` newer than `now` - 24 hours.
RECURSIVE KeepRecent(_, _)
KeepRecent(history, now) ==
    IF history = <<>> THEN <<>>
    ELSE (IF fromisoformat(Head(history).timestamp) > now - RetentionHours
          THEN <<Head(history)>> ELSE <<>>)
         \o KeepRecent(Tail(history), now)

\* A variant of line 252 that tests `if status:` only.
CollectStoresWithoutSuccess(s) == s.present

\* Line 252.

CollectStores(s) == s.present /\ s.success

\* Whether collect_performance_metrics raises: data.get on a JSON null (line 257).
collect_raises(s) == CollectStores(s) /\ s.data.kind = "null"

\* A variant of line 269 with insert(0, metrics).
CollectedPrepending(history, s, devs, now, later) ==
    IF CollectStores(s)
    THEN KeepRecent(<<Metrics(s.data, devs, now)>> \o history, later)
    ELSE history

\* Lines 252-276: the history after the call; `now` is read at line 256 and
\* `later` at line 272.
Collected(history, s, devs, now, later) ==
    IF CollectStores(s)
    THEN KeepRecent(Append(history, Metrics(s.data, devs, now)), later)
    ELSE history

\* A variant in which lines 271-276 come before the status is looked at.
CollectFailedEvicting(history, now) == KeepRecent(history, now)

\* Lines 249-257: the history after a call that raised; every statement that
\* can raise comes before the append of line 269.
CollectFailed(history, now) == history

(***************************************************************************)
(* --mode monitor (lines 413-426): monitor_continuous (lines 322-365).     *)
(***************************************************************************)
\* args.interval, in hours: any int, argparse does not restrict it.
Intervals == {-1, 0, 12, 24}

\* The time that passes between the two readings of the clock at lines 256
\* and 272.
Gaps == {0, 1}

\* What get_status answers in the loop: nothing, an application-level failure,
\* a healthy status, a faulty one, and a JSON null for `data`.
LoopStatuses ==
    {NoStatus,
     StatusOf(FALSE, StatusData(<<"Running">>, <<45>>, <<100>>, <<2>>)),
     StatusOf(TRUE, StatusData(<<"Running">>, <<45>>, <<100>>, <<2>>)),
     StatusOf(TRUE, StatusData(<<"Stopped">>, <<10>>, <<200>>, <<11>>)),
     StatusOf(TRUE, NullData)}

\* What get_devices answers in the loop.
LoopDevices ==
    {NoList, ListOf(<<>>),
     ListOf(<<Device(1, "Mining", <<60>>, <<20>>)>>),
     ListOf(<<Device(1, "Idle", <<90>>, <<>>)>>)}

\* What get_pools answers in the loop.
LoopPools ==
    {NoList, ListOf(<<>>), ListOf(<<Pool("Connected")>>),
     ListOf(<<Pool("Disconnected")>>)}

\* The statements inside the try block (lines 328-358).
TryBody == {"poll", "check_alerts", "notify", "collect", "log", "sleep"}

Init ==
    /\ InitObject
    /\ pc = "poll"
    /\ interval \in Intervals
    /\ smtp_config \in BOOLEAN
    /\ status = NoStatus
    /\ devices = NoList
    /\ pools = NoList

\* What an iteration starts from: the observer of a new iteration.
NewCycle ==
    [cycle EXCEPT !.n = cycle.n + 1, !.start_history = performance_history]

\* Lines 329-331.  get_devices and get_pools raise AttributeError (lines 65,
\* 75) when the body is JSON but not an object; the locals assigned before
\* that keep their values.
Poll ==
    /\ pc = "poll"
    /\ cycle.n < MaxCycles
    /\ \E s \in LoopStatuses :
          /\ status' = s
          /\ \/ /\ pc' = "handler"
                /\ cycle' = [NewCycle EXCEPT !.fetches = <<1, 1, 0>>, !.raised = "poll",
                                             !.persisting = 0]
                /\ UNCHANGED <<devices, pools>>
             \/ \E d \in LoopDevices :
                   /\ devices' = d
                   /\ \/ /\ pc' = "handler"
                         /\ cycle' = [NewCycle EXCEPT !.fetches = <<1, 1, 1>>,
                                                      !.raised = "poll",
                                                      !.persisting = 0]
                         /\ UNCHANGED pools
                      \/ \E p \in LoopPools :
                            /\ pools' = p
                            /\ pc' = "check_alerts"
                            /\ cycle' = [NewCycle EXCEPT !.fetches = <<1, 1, 1>>]
    /\ alerts' = <<>>
    /\ UNCHANGED <<interval, smtp_config, clock, health, last_status,
                   alert_history, performance_history, report>>

\* The status handed to check_alerts is a success whose mining_state is not
\* Running: the fault the observer follows from one iteration to the next.
MiningFault(s) == ~ApiDown(s) /\ s.data.mining_state # <<"Running">>

\* A variant of check_alerts that drops the alerts whose message is already
\* in self.alert_history and records the others there.
CheckAlertsSuppressingRepeats ==
    /\ pc = "check_alerts"
    /\ IF check_alerts_raises(status)
       THEN /\ pc' = "handler"
            /\ cycle' = [cycle EXCEPT !.raised = "check_alerts", !.persisting = 0]
            /\ UNCHANGED <<alerts, alert_history>>
       ELSE LET found == check_alerts(status, OrEmpty(devices), OrEmpty(pools), clock)
                known == {alert_history[k] : k \in 1..Len(alert_history)}
                fresh == SelectSeq(found, LAMBDA a : a.message.text \notin known)
            IN  /\ alerts' = fresh
                /\ alert_history' =
                      alert_history \o [k \in 1..Len(fresh) |-> fresh[k].message.text]
                /\ pc' = "notify"
                /\ cycle' = [cycle EXCEPT !.persisting =
                                IF MiningFault(status) THEN @ + 1 ELSE 0]
    /\ UNCHANGED <<interval, smtp_config, clock, status, devices, pools, health,
                   last_status, performance_history, report>>

\* Line 334.  The observer counts the consecutive iterations whose
\* check_alerts was given a status with the mining fault.
CheckAlerts ==
    /\ pc = "check_alerts"
    /\ IF check_alerts_raises(status)
       THEN /\ pc' = "handler"
            /\ cycle' = [cycle EXCEPT !.raised = "check_alerts", !.persisting = 0]
            /\ UNCHANGED alerts
       ELSE /\ alerts' = check_alerts(status, OrEmpty(devices), OrEmpty(pools), clock)
            /\ pc' = "notify"
            /\ cycle' = [cycle EXCEPT !.persisting =
                            IF MiningFault(status) THEN @ + 1 ELSE 0]
    /\ UNCHANGED <<interval, smtp_config, clock, status, devices, pools, health,
                   last_status, alert_history, performance_history, report>>

\* A variant of lines 227-229 that puts only the first alert into the body.
send_email_alert_first_only(list, config, sent) ==
    IF list = <<>> \/ ~config
    THEN cycle
    ELSE [cycle EXCEPT !.digests = @ + 1,
                       !.delivered = @ \o <<[digest |-> <<Head(list)>>, sent |-> sent]>>]

\* send_email_alert (lines 213-245): nothing without alerts or configuration;
\* otherwise the digest of all alerts is handed to smtplib, and whatever that
\* raises is caught at line 244.
send_email_alert(list, config, sent) ==
    IF list = <<>> \/ ~config
    THEN cycle
    ELSE [cycle EXCEPT !.digests = @ + 1,
                       !.delivered = @ \o <<[digest |-> list, sent |-> sent]>>]

\* Lines 337-343.
Notify ==
    /\ pc = "notify"
    /\ IF alerts # <<>> /\ smtp_config
       THEN \E sent \in BOOLEAN : cycle' = send_email_alert(alerts, smtp_config, sent)
       ELSE UNCHANGED cycle
    /\ pc' = "collect"
    /\ UNCHANGED <<interval, smtp_config, clock, status, devices, pools, alerts,
                   health, last_status, alert_history, performance_history, report>>

\* Line 346: collect_performance_metrics fetches the status and the devices
\* again (lines 249-250).
Collect ==
    /\ pc = "collect"
    /\ \E s \in LoopStatuses :
          \/ /\ pc' = "handler"
             /\ cycle' = [cycle EXCEPT !.fetches = <<@[1] + 1, @[2] + 1, @[3]>>,
                                       !.raised = "collect",
                                       !.collect_status = <<s>>]
             /\ performance_history' = CollectFailed(performance_history, clock)
             /\ UNCHANGED clock
          \/ \E d \in LoopDevices :
                IF collect_raises(s)
                THEN /\ pc' = "handler"
                     /\ cycle' = [cycle EXCEPT
                                     !.fetches = <<@[1] + 1, @[2] + 1, @[3]>>,
                                     !.raised = "collect",
                                     !.collect_status = <<s>>]
                     /\ performance_history' =
                           CollectFailed(performance_history, clock)
                     /\ UNCHANGED clock
                ELSE \E gap \in (IF CollectStores(s) THEN Gaps ELSE {0}) :
                        /\ performance_history' =
                              Collected(performance_history, s, d, clock, clock + gap)
                        /\ clock' = clock + gap
                        /\ cycle' = [cycle EXCEPT
                                        !.fetches = <<@[1] + 1, @[2] + 1, @[3]>>,
                                        !.appended = IF CollectStores(s) THEN @ + 1 ELSE @,
                                        !.newest = IF CollectStores(s)
                                                   THEN <<isoformat(clock)>> ELSE @,
                                        !.collect_status = <<s>>]
                        /\ pc' = "log"
    /\ UNCHANGED <<interval, smtp_config, status, devices, pools, alerts, health,
                   last_status, alert_history, report>>

\* Lines 349-356: one log line from the status fetched at line 329.  Its
\* format specs accept every number that check_alerts compared at line 154.
LogStatus ==
    /\ pc = "log"
    /\ pc' = "sleep"
    /\ UNCHANGED <<interval, smtp_config, clock, status, devices, pools, alerts,
                   health, last_status, alert_history, performance_history, cycle, report>>

\* time.sleep(interval) returns and the next iteration begins: the locals of
\* the finished one are dead (each is assigned at lines 329-334 before it is
\* read again), and the observer starts afresh, keeping what it follows
\* across iterations.
NextIteration ==
    /\ pc' = "poll"
    /\ clock' = clock + interval
    /\ status' = NoStatus
    /\ devices' = NoList
    /\ pools' = NoList
    /\ alerts' = <<>>
    /\ cycle' = [NoCycle EXCEPT !.n = cycle.n, !.newest = cycle.newest,
                                !.persisting = cycle.persisting]

\* Line 358.  time.sleep raises ValueError for a negative argument.
Sleep ==
    /\ pc = "sleep"
    /\ IF interval < 0
       THEN /\ pc' = "handler"
            /\ cycle' = [cycle EXCEPT !.raised = "sleep"]
            /\ UNCHANGED <<clock, status, devices, pools, alerts>>
       ELSE NextIteration
    /\ UNCHANGED <<interval, smtp_config, health, last_status, alert_history,
                   performance_history, report>>

\* Lines 363-365: `except Exception`, with its own time.sleep(interval); what
\* that raises leaves monitor_continuous.
Handler ==
    /\ pc = "handler"
    /\ IF interval < 0
       THEN /\ pc' = "crashed"
            /\ UNCHANGED <<clock, status, devices, pools, alerts, cycle>>
       ELSE NextIteration
    /\ UNCHANGED <<interval, smtp_config, health, last_status, alert_history,
                   performance_history, report>>

\* A variant in which line 363 is a bare `except:` placed before line 360: a
\* KeyboardInterrupt raised in the try block is handled as an error.
InterruptCaughtAsError ==
    /\ \/ pc \in TryBody /\ pc' = "handler"
       \/ pc = "handler" /\ pc' = "interrupted"
    /\ cycle' = [cycle EXCEPT !.cancelled = TRUE]
    /\ UNCHANGED <<interval, smtp_config, clock, status, devices, pools, alerts,
                   health, last_status, alert_history, performance_history, report>>

\* KeyboardInterrupt: caught at lines 360-362 when raised inside the try
\* block (the fetches let it through, lines 56, 66, 76, and so does the
\* notifier, line 244); raised inside the except block (line 365) it leaves
\* monitor_continuous.  The observer notes that it arrived.
Interrupt ==
    /\ \/ pc \in TryBody /\ pc' = "stopped"
       \/ pc = "handler" /\ pc' = "interrupted"
    /\ cycle' = [cycle EXCEPT !.cancelled = TRUE]
    /\ UNCHANGED <<interval, smtp_config, clock, status, devices, pools, alerts,
                   health, last_status, alert_history, performance_history, report>>

Next ==
    \/ Poll
    \/ CheckAlerts
    \/ Notify
    \/ Collect
    \/ LogStatus
    \/ Sleep
    \/ Handler
    \/ Interrupt

Spec == Init /\ [][Next]_vars

(***************************************************************************)
(* generate_report (lines 278-320).  The report is kept as its lines'       *)
(* values, before the f-strings format them; a quotient a / b is kept as   *)
(* the fraction, and Python raises ZeroDivisionError when b = 0.           *)
(***************************************************************************)
Divide(a, b) ==
    [raised |-> IF b = 0 THEN "ZeroDivisionError" ELSE "none", num |-> a, den |-> b]

\* sum(values).
RECURSIVE Sum(_)
Sum(values) == IF values = <<>> THEN 0 ELSE Head(values) + Sum(Tail(values))

\* min(values) and max(values) of a non-empty list.
Min(values) ==
    CHOOSE v \in {values[k] : k \in 1..Len(values)} :
        \A k \in 1..Len(values) : v <= values[k]

Max(values) ==
    CHOOSE v \in {values[k] : k \in 1..Len(values)} :
        \A k \in 1..Len(values) : v >= values[k]

\* Lines 294-304: the line of one array of the latest sample; none when the
\* sample has no such key or the array is empty.
ArrayLine(array) ==
    IF array # <<>> /\ array[1] # <<>>
    THEN <<[min |-> Min(array[1]), max |-> Max(array[1]),
            avg |-> Divide(Sum(array[1]), Len(array[1]))]>>
    ELSE <<>>

\* A variant of lines 306-318 without the `if time_diff > 0:` of line 316.
TrendLineUnguarded(history) ==
    IF Len(history) > 1
    THEN LET latest == history[Len(history)]
             first == history[1]
             shares_gained == latest.accepted_shares - first.accepted_shares
             time_diff == fromisoformat(latest.timestamp)
                            - fromisoformat(first.timestamp)
         IN  <<Divide(shares_gained, time_diff)>>
    ELSE <<>>

\* Lines 306-318: the "Shares per hour" line; time_diff is in hours.
TrendLine(history) ==
    IF Len(history) > 1
    THEN LET latest == history[Len(history)]
             first == history[1]
             shares_gained == latest.accepted_shares - first.accepted_shares
             time_diff == fromisoformat(latest.timestamp)
                            - fromisoformat(first.timestamp)
         IN  IF time_diff > 0 THEN <<Divide(shares_gained, time_diff)>> ELSE <<>>
    ELSE <<>>

\* Line 281.
NoDataReport == [text |-> "No performance data available"]

\* Lines 278-320.
generate_report(history) ==
    IF history = <<>> THEN NoDataReport
    ELSE LET latest == history[Len(history)] IN
         [text |-> "CGMiner-RS Performance Report",
          report_time |-> latest.timestamp,
          total_hashrate |-> latest.total_hashrate,
          accepted_shares |-> latest.accepted_shares,
          rejected_shares |-> latest.rejected_shares,
          hardware_errors |-> latest.hardware_errors,
          active_devices |-> latest.active_devices,
          uptime |-> latest.uptime,
          temperatures |-> ArrayLine(latest.device_temperatures),
          hashrates |-> ArrayLine(latest.device_hashrates),
          trends |-> Len(history) > 1,
          shares_per_hour |-> TrendLine(history)]

\* Whether generate_report raises: one of its divisions is by zero.
generate_report_raises(r) ==
    /\ r # NoDataReport
    /\ \/ r.temperatures # <<>> /\ r.temperatures[1].avg.raised # "none"
       \/ r.hashrates # <<>> /\ r.hashrates[1].avg.raised # "none"
       \/ r.shares_per_hour # <<>> /\ r.shares_per_hour[1].raised # "none"

(***************************************************************************)
(* --mode report (lines 408-411): collect_performance_metrics, then        *)
(* generate_report.  main() calls the first once; the methods being        *)
(* public, the model lets it be called up to MaxCollects times, some time  *)
(* apart, before the report is generated.                                  *)
(***************************************************************************)
\* The time that passes before a call of collect_performance_metrics.
Waits == {0, 12, 24}

InitReport ==
    /\ InitObject
    /\ pc = "report_mode"
    /\ interval = 0
    /\ smtp_config = FALSE
    /\ status = NoStatus
    /\ devices = NoList
    /\ pools = NoList

\* Line 409.  What collect_performance_metrics raises leaves main().
ReportCollect ==
    /\ pc = "report_mode"
    /\ cycle.n < MaxCollects
    /\ \E wait \in Waits, s \in LoopStatuses :
          \/ /\ pc' = "crashed"
             /\ cycle' = [NewCycle EXCEPT !.raised = "collect", !.collect_status = <<s>>]
             /\ performance_history' = CollectFailed(performance_history, clock + wait)
             /\ clock' = clock + wait
          \/ \E d \in LoopDevices :
                IF collect_raises(s)
                THEN /\ pc' = "crashed"
                     /\ cycle' = [NewCycle EXCEPT !.raised = "collect",
                                                  !.collect_status = <<s>>]
                     /\ performance_history' =
                           CollectFailed(performance_history, clock + wait)
                     /\ clock' = clock + wait
                ELSE \E gap \in (IF CollectStores(s) THEN Gaps ELSE {0}) :
                        /\ performance_history' =
                              Collected(performance_history, s, d,
                                        clock + wait, clock + wait + gap)
                        /\ clock' = clock + wait + gap
                        /\ cycle' = [NewCycle EXCEPT
                                        !.appended = IF CollectStores(s) THEN 1 ELSE 0,
                                        !.newest = IF CollectStores(s)
                                                   THEN <<isoformat(clock + wait)>> ELSE @,
                                        !.collect_status = <<s>>]
                        /\ pc' = "report_mode"
    /\ UNCHANGED <<interval, smtp_config, status, devices, pools, alerts, health,
                   last_status, alert_history, report>>

\* Lines 410-411.
GenerateReport ==
    /\ pc = "report_mode"
    /\ IF generate_report_raises(generate_report(performance_history))
       THEN /\ pc' = "crashed"
            /\ cycle' = [cycle EXCEPT !.raised = "generate_report"]
            /\ UNCHANGED report
       ELSE /\ report' = generate_report(performance_history)
            /\ pc' = "reported"
            /\ UNCHANGED cycle
    /\ UNCHANGED <<interval, smtp_config, clock, status, devices, pools, alerts,
                   health, last_status, alert_history, performance_history>>

NextReport == ReportCollect \/ GenerateReport

SpecReport == InitReport /\ [][NextReport]_vars

(***************************************************************************)
(* main() with --mode monitor or --mode report (lines 408-426): the two    *)
(* modes that use performance_history.  The monitor is given a delivery    *)
(* configuration and an interval of nothing or of the retention window.    *)
(***************************************************************************)
InitMain ==
    /\ InitObject
    /\ status = NoStatus
    /\ devices = NoList
    /\ pools = NoList
    /\ \/ pc = "poll" /\ interval \in {0, RetentionHours} /\ smtp_config = TRUE
       \/ pc = "report_mode" /\ interval = 0 /\ smtp_config = FALSE

NextMain == Next \/ NextReport

SpecMain == InitMain /\ [][NextMain]_vars

(***************************************************************************)
(* Properties of check_alerts.                                             *)
(***************************************************************************)
\* The temperature alerts of the returned list that name device `id`.
TemperatureAlertsOf(id) ==
    {k \in 1..Len(alerts) : /\ alerts[k].message.text = "high temperature"
                            /\ alerts[k].message.device = <<id>>}

\* The device entry has a temperature and it is above 85.0.
Hot(device) == device.temperature # <<>> /\ device.temperature[1] > MaxTemperature

\* C6: whenever the status given to check_alerts is missing or has a false
\* success flag, whatever the device and pool lists are, the returned list is
\* exactly one alert, critical, "API not responding".
C6_ApiDownGivesOneAlert ==
    (pc = "returned" /\ (~status.present \/ ~status.success))
        => /\ Len(alerts) = 1
           /\ alerts[1].type = "critical"
           /\ alerts[1].message.text = "API not responding"

\* C6 happens: a failed status together with a hot, idle device and a pool
\* list with no connected pool has been evaluated.
C6_Witness ==
    /\ pc = "returned"
    /\ status.present /\ ~status.success
    /\ \E i \in 1..Len(devices.data) :
          Hot(devices.data[i]) /\ devices.data[i].status = "Idle"
    /\ pools.data = <<Pool("Disconnected")>>
    /\ Len(alerts) = 1

\* C8 as stated: for every input, every device entry hotter than 85.0 has
\* exactly one critical temperature alert in the returned list, and every
\* other entry has none.
C8_Original ==
    pc = "returned" =>
        \A i \in 1..Len(devices.data) :
            /\ Cardinality(TemperatureAlertsOf(i))
                 = (IF Hot(devices.data[i]) THEN 1 ELSE 0)
            /\ \A k \in TemperatureAlertsOf(i) : alerts[k].type = "critical"

\* C8 amended: the same, for the inputs whose status is present with a true
\* success flag (otherwise check_alerts returns before looking at the devices).
C8_HotDeviceOneAlert ==
    (pc = "returned" /\ status.present /\ status.success) =>
        \A i \in 1..Len(devices.data) :
            /\ Cardinality(TemperatureAlertsOf(i))
                 = (IF Hot(devices.data[i]) THEN 1 ELSE 0)
            /\ \A k \in TemperatureAlertsOf(i) : alerts[k].type = "critical"

\* C8 happens: with a successful status, one device at 90 and one at exactly
\* 85 have been evaluated; the first has its alert and the second has none.
C8_Witness ==
    /\ pc = "returned"
    /\ status.present /\ status.success
    /\ Len(devices.data) = 2
    /\ devices.data[1].temperature = <<90>>
    /\ devices.data[2].temperature = <<85>>
    /\ Cardinality(TemperatureAlertsOf(1)) = 1
    /\ TemperatureAlertsOf(2) = {}

(***************************************************************************)
(* Properties of check_health.                                             *)
(***************************************************************************)
\* check_health has finished with the status.
StatusChecked == pc \in {"health_devices", "health_pools", "health_returned"}

\* check_health has finished with the devices.
DevicesChecked == pc \in {"health_pools", "health_returned"}

\* The device entries that are mining, cooler than 85.0 and faster than 15.0,
\* a missing temperature or hashrate counting as 0.
HealthyEntries ==
    {i \in 1..Len(devices.data) :
        /\ devices.data[i].status = "Mining"
        /\ (devices.data[i].temperature = <<>>
              \/ devices.data[i].temperature[1] < MaxTemperature)
        /\ devices.data[i].hashrate # <<>>
        /\ devices.data[i].hashrate[1] > MinDeviceHashrate}

\* C9: devices_healthy and temperature_ok always have the same value, and once
\* the devices are checked that value is true exactly when the device list was
\* fetched, is not empty and at least 80% (4 in 5) of its entries are healthy.
C9_DevicesHealthyIsEightyPercent ==
    /\ health.devices_healthy = health.temperature_ok
    /\ DevicesChecked =>
         (health.devices_healthy <=>
            /\ devices.present
            /\ Len(devices.data) > 0
            /\ 5 * Cardinality(HealthyEntries) >= 4 * Len(devices.data))

\* C9 happens: a list of five devices of which exactly four are healthy has
\* been checked and both flags are true.
C9_Witness ==
    /\ DevicesChecked
    /\ devices.present
    /\ Len(devices.data) = 5
    /\ Cardinality(HealthyEntries) = 4
    /\ health.devices_healthy /\ health.temperature_ok

BothReturned == pc = "same_returned"

\* The pool alerts of the returned list.
PoolAlertsReturned ==
    {k \in 1..Len(alerts) : alerts[k].message.text = "No pools connected"}

\* The pool list was fetched, is not empty and has no Connected entry.
NoPoolConnected ==
    /\ pools.present
    /\ pools.data # <<>>
    /\ \A i \in 1..Len(pools.data) : pools.data[i].status # "Connected"

\* C11: with a successful status, the returned list has exactly one pool
\* alert, critical, when the pool list is non-empty with no Connected entry,
\* and none otherwise (an empty list and a failed pool fetch included);
\* pools_connected of the health report is false in all three cases.
C11_PoolAlertAsymmetry ==
    (BothReturned /\ status.present /\ status.success) =>
        /\ Cardinality(PoolAlertsReturned) = (IF NoPoolConnected THEN 1 ELSE 0)
        /\ \A k \in PoolAlertsReturned : alerts[k].type = "critical"
        /\ (~pools.present \/ pools.data = <<>> \/ NoPoolConnected)
              => ~health.pools_connected

\* C11 happens: with a successful status, a failed pool fetch has been
\* evaluated: there is no pool alert and pools_connected is false.
C11_Witness ==
    /\ BothReturned
    /\ status.present /\ status.success
    /\ ~pools.present
    /\ PoolAlertsReturned = {}
    /\ ~health.pools_connected

\* Every flag of the health report is true.
AllHealthy ==
    /\ health.api_responsive /\ health.mining_active /\ health.devices_healthy
    /\ health.pools_connected /\ health.temperature_ok /\ health.hashrate_ok

\* C15: when every flag of the health report is true, every device entry is
\* mining, cooler than 85.0 and faster than 15.0, and hardware_errors is at
\* most 10, check_alerts on the same inputs returns the empty list.
C15_AllHealthyNoAlerts ==
    (/\ BothReturned
     /\ AllHealthy
     /\ Cardinality(HealthyEntries) = Len(devices.data)
     /\ Get(status.data.hardware_errors, 0) <= MaxHardwareErrors)
        => alerts = <<>>

\* C15 happens: a running status with exactly 10 hardware errors, two healthy
\* devices (one of them reporting no temperature) and a pool list with a
\* connected pool have been evaluated: all flags are true and no alert.
C15_Witness ==
    /\ BothReturned
    /\ AllHealthy
    /\ status.data.hardware_errors = <<10>>
    /\ Len(devices.data) = 2
    /\ Cardinality(HealthyEntries) = 2
    /\ devices.data[1].temperature = <<60>>
    /\ devices.data[2].temperature = <<>>
    /\ Len(pools.data) = 2
    /\ alerts = <<>>

\* The alerts of the returned list with this text.
AlertsWithText(text) == {k \in 1..Len(alerts) : alerts[k].message.text = text}

\* The alerts of the returned list that name device `id`.
AlertsOfDevice(id) == {k \in 1..Len(alerts) : alerts[k].message.device = <<id>>}

\* C18: on the same inputs with a successful status, a true mining_active,
\* hashrate_ok or pools_connected goes with no "Mining not active", "Low total
\* hashrate" or "No pools connected" alert respectively, and a device entry
\* that is mining, cooler than 85.0 and faster than 15.0 has no alert.
C18_HealthAndAlertsAgree ==
    (BothReturned /\ status.present /\ status.success) =>
        /\ health.mining_active => AlertsWithText("Mining not active") = {}
        /\ health.hashrate_ok => AlertsWithText("Low total hashrate") = {}
        /\ health.pools_connected => AlertsWithText("No pools connected") = {}
        /\ devices.present =>
              \A i \in HealthyEntries : AlertsOfDevice(devices.data[i].device_id) = {}

\* C18 happens: the three flags are true, a healthy device at 20 GH/s has no
\* alert, and the idle device next to it has one.
C18_Witness ==
    /\ BothReturned
    /\ status.present /\ status.success
    /\ health.mining_active /\ health.hashrate_ok /\ health.pools_connected
    /\ devices.present
    /\ Len(devices.data) = 2
    /\ HealthyEntries = {1}
    /\ devices.data[1].hashrate = <<20>>
    /\ devices.data[2].status = "Idle"
    /\ AlertsOfDevice(1) = {}
    /\ AlertsOfDevice(2) # {}

(***************************************************************************)
(* Properties of generate_report.                                          *)
(***************************************************************************)
\* The hours between the first and the last sample of the history.
Elapsed ==
    fromisoformat(performance_history[Len(performance_history)].timestamp)
      - fromisoformat(performance_history[1].timestamp)

\* The array under `key` of the last sample, empty when the key is missing.
LatestArray(key) ==
    LET latest == performance_history[Len(performance_history)]
    IN  IF latest[key] = <<>> THEN <<>> ELSE latest[key][1]

\* The average of the report line is that of this non-empty array.
AverageOf(line, array) ==
    line # <<>> =>
        /\ array # <<>>
        /\ line[1].avg = [raised |-> "none", num |-> Sum(array), den |-> Len(array)]

\* C17: generate_report never raises ZeroDivisionError; on an empty history it
\* returns "No performance data available"; otherwise each average is there
\* exactly when its array is not empty, and the shares-per-hour line is there
\* exactly when the history has at least two samples and the last is strictly
\* later than the first, with the value (latest.accepted_shares -
\* first.accepted_shares) / elapsed hours.
C17_ReportNeverDividesByZero ==
    /\ ~(pc = "crashed" /\ cycle.raised = "generate_report")
    /\ pc = "reported" =>
         IF performance_history = <<>> THEN report = NoDataReport
         ELSE /\ report # NoDataReport
              /\ report.temperatures # <<>> <=> LatestArray("device_temperatures") # <<>>
              /\ AverageOf(report.temperatures, LatestArray("device_temperatures"))
              /\ report.hashrates # <<>> <=> LatestArray("device_hashrates") # <<>>
              /\ AverageOf(report.hashrates, LatestArray("device_hashrates"))
              /\ report.shares_per_hour # <<>>
                   <=> (Len(performance_history) >= 2 /\ Elapsed > 0)
              /\ report.shares_per_hour # <<>> =>
                   report.shares_per_hour[1] =
                      [raised |-> "none",
                       num |-> performance_history[Len(performance_history)].accepted_shares
                                 - performance_history[1].accepted_shares,
                       den |-> Elapsed]

\* C17 happens: a report was generated from two samples taken at the same
\* time, the last with an empty hashrate array: it has the trend header but
\* neither a shares-per-hour line nor a hashrate line.
C17_Witness ==
    /\ pc = "reported"
    /\ Len(performance_history) = 2
    /\ Elapsed = 0
    /\ performance_history[2].device_hashrates = <<(<<>>)>>
    /\ report.trends
    /\ report.shares_per_hour = <<>>
    /\ report.hashrates = <<>>
    /\ report.temperatures # <<>>

(***************************************************************************)
(* Properties of the monitor loop.                                         *)
(***************************************************************************)
\* The iteration got past collect_performance_metrics.
CollectDone == pc \in {"log", "sleep"} \/ (pc = "handler" /\ cycle.raised = "sleep")

\* An exception of this iteration was caught at line 363.
Caught == pc \in {"handler", "crashed", "interrupted"}

\* Some alert of the list has this text (and names this device, if any).
HasAlert(text, device) ==
    \E k \in 1..Len(alerts) :
        alerts[k].message.text = text /\ alerts[k].message.device = device

Ok(resp) == resp.present /\ resp.success

\* The iteration got past the notification of lines 337-343.
Notified ==
    \/ pc \in {"collect", "log", "sleep"}
    \/ pc \in {"handler", "crashed", "interrupted"} /\ cycle.raised \in {"collect", "sleep"}

\* C12: an iteration that got past the notification handed a digest to the
\* notifier exactly once, with the whole alert list, if the list is non-empty
\* and a configuration is present, and never otherwise; before that point no
\* digest was handed over; and a delivery that failed leaves the iteration on
\* its way through metric collection, the log and the sleep (unless it is
\* cancelled), as one that succeeded does.
C12_DeliveryOncePerCycle ==
    /\ Notified =>
          IF alerts # <<>> /\ smtp_config
          THEN /\ cycle.digests = 1
               /\ Len(cycle.delivered) = 1
               /\ cycle.delivered[1].digest = alerts
          ELSE cycle.digests = 0 /\ cycle.delivered = <<>>
    /\ (~Notified /\ pc # "stopped") => (cycle.digests = 0 /\ cycle.delivered = <<>>)
    /\ cycle.digests <= 1
    /\ \A k \in 1..Len(cycle.delivered) :
          (~cycle.delivered[k].sent /\ pc # "stopped") => Notified

\* C12 happens: the delivery of a digest of several alerts failed, and the
\* iteration went on to append its sample and reached the sleep.
C12_Witness ==
    /\ pc = "sleep"
    /\ smtp_config
    /\ Len(alerts) > 1
    /\ cycle.delivered = <<[digest |-> alerts, sent |-> FALSE]>>
    /\ cycle.appended = 1

\* C1: every retained sample is at most 24 hours older than the most recently
\* appended sample, in every state, appended to in this iteration or not.
C1_RetentionWindow ==
    \A i \in 1..Len(performance_history) :
        /\ cycle.newest # <<>>
        /\ fromisoformat(cycle.newest[1])
             - fromisoformat(performance_history[i].timestamp) <= RetentionHours

\* C1 happens: an iteration appended a sample to a history that held one, and
\* the older sample was evicted while the new one is retained.
C1_Witness ==
    /\ pc = "log"
    /\ cycle.appended = 1
    /\ Len(cycle.start_history) = 1
    /\ Len(performance_history) = 1
    /\ performance_history[1].timestamp = cycle.newest[1]
    /\ performance_history[1].timestamp # cycle.start_history[1].timestamp

\* The last sample of the history.
Newest == performance_history[Len(performance_history)]

\* collect_performance_metrics has just returned from appending a sample.
JustAppended == pc = "log" /\ cycle.appended = 1

\* C13 as stated: after an append the history is the history the iteration
\* began with followed by the new sample, minus the entries older than the
\* sample's own timestamp less 24 hours; an entry exactly 24 hours older than
\* the sample is still there.
C13_Original ==
    JustAppended =>
        /\ performance_history # <<>>
        /\ Newest.timestamp = cycle.newest[1]
        /\ performance_history =
              SelectSeq(Append(cycle.start_history, Newest),
                        LAMBDA e : fromisoformat(e.timestamp)
                                     >= fromisoformat(Newest.timestamp) - RetentionHours)

\* C13 amended: the cutoff is a second reading of the clock, not earlier than
\* the sample's timestamp, less 24 hours, and only the entries strictly newer
\* than it remain: an entry exactly 24 hours older than the sample is gone.
C13_CutoffIsLaterReading ==
    JustAppended =>
        /\ performance_history # <<>>
        /\ Newest.timestamp = cycle.newest[1]
        /\ fromisoformat(Newest.timestamp) <= clock
        /\ performance_history =
              SelectSeq(Append(cycle.start_history, Newest),
                        LAMBDA e : fromisoformat(e.timestamp) > clock - RetentionHours)

\* C13 happens: a sample was appended to a history whose only entry was
\* exactly 24 hours older, and that entry was evicted.
C13_Witness ==
    /\ JustAppended
    /\ Len(cycle.start_history) = 1
    /\ fromisoformat(cycle.start_history[1].timestamp)
          = fromisoformat(cycle.newest[1]) - RetentionHours
    /\ performance_history = <<Newest>>
    /\ Newest.timestamp = cycle.newest[1]

\* C14: once a KeyboardInterrupt has arrived, wherever the iteration was,
\* monitor_continuous has been left and no step of it is possible any more:
\* no further poll and no further append.
C14_CancellationTerminates ==
    cycle.cancelled => (pc \in {"stopped", "interrupted"} /\ ~ENABLED Next)

\* C14 happens: the interrupt arrived during the sleep that follows a failed
\* iteration, with a sample of an earlier iteration in the history.
C14_Witness ==
    /\ cycle.cancelled
    /\ pc = "interrupted"
    /\ cycle.raised = "poll"
    /\ performance_history # <<>>

\* C2 as stated, its finite part: monitor_continuous is left only through a
\* cancellation (KeyboardInterrupt), never otherwise.
C2_OnlyCancellationTerminates ==
    pc \in {"stopped", "interrupted", "crashed"} => pc \in {"stopped", "interrupted"}

\* C3 as stated: when an exception of an iteration is caught at the loop
\* level, no digest was handed to the notifier in that iteration and the
\* history is what it was when the iteration began.
C3_Original ==
    Caught => (cycle.digests = 0 /\ performance_history = cycle.start_history)

\* C3 amended: that holds when the exception was raised by a fetch of the poll
\* or by alert detection; an exception raised inside metric collection leaves
\* the history as it was when the iteration began (the alerts may have been
\* notified already).
C3_EarlyErrorLeavesNoTrace ==
    Caught =>
        /\ cycle.raised \in {"poll", "check_alerts"} =>
              (cycle.digests = 0 /\ performance_history = cycle.start_history)
        /\ cycle.raised = "collect" => performance_history = cycle.start_history

\* C3 happens: in an iteration that began with a sample in the history and
\* notified its alerts, metric collection raised and the exception was caught.
C3_Witness ==
    /\ pc = "handler"
    /\ cycle.raised = "collect"
    /\ cycle.digests = 1
    /\ cycle.start_history # <<>>
    /\ performance_history = cycle.start_history

\* C4 as stated: an iteration appends exactly one sample if the status given
\* to check_alerts was a success, and otherwise leaves the history unchanged.
C4_Original ==
    CollectDone =>
        IF Ok(status)
        THEN cycle.appended = 1
        ELSE cycle.appended = 0 /\ performance_history = cycle.start_history

\* C4 amended: an iteration whose metric collection returns appends exactly
\* one sample if the status that collect_performance_metrics fetched itself
\* was a success, and otherwise leaves the history unchanged; an iteration
\* that raised before that appends nothing.
C4_AppendFollowsCollectStatus ==
    /\ CollectDone =>
         IF Ok(cycle.collect_status[1])
         THEN cycle.appended = 1
         ELSE cycle.appended = 0 /\ performance_history = cycle.start_history
    /\ (Caught /\ cycle.raised # "sleep") =>
         (cycle.appended = 0 /\ performance_history = cycle.start_history)

\* C4 happens: the poll got no status (the alert is "API not responding"),
\* collect_performance_metrics got one, and a sample was appended.
C4_Witness ==
    /\ pc = "log"
    /\ ~status.present
    /\ Len(alerts) = 1 /\ alerts[1].message.text = "API not responding"
    /\ Ok(cycle.collect_status[1])
    /\ cycle.appended = 1
    /\ Len(performance_history) = Len(cycle.start_history) + 1

\* C5 as stated: in one iteration each of the status, the devices and the
\* pools is requested at most once.
C5_Original == \A k \in 1..3 : cycle.fetches[k] <= 1

\* C5 amended: in one iteration the status and the devices are requested at
\* most twice each (by the loop and again by collect_performance_metrics) and
\* the pools at most once; the appended sample is built from the second status
\* response.
C5_AtMostTwoFetches ==
    /\ cycle.fetches[1] <= 2 /\ cycle.fetches[2] <= 2 /\ cycle.fetches[3] <= 1
    /\ (CollectDone /\ cycle.appended = 1 /\ performance_history # <<>>) =>
          performance_history[Len(performance_history)].accepted_shares
             = Get(cycle.collect_status[1].data.accepted_shares, 0)

\* C5 happens: the two status responses of one iteration differ, and the
\* sample has the accepted shares of the second.
C5_Witness ==
    /\ pc = "log"
    /\ cycle.fetches = <<2, 2, 1>>
    /\ Ok(status) /\ status.data.accepted_shares = <<100>>
    /\ Ok(cycle.collect_status[1])
    /\ cycle.collect_status[1].data.accepted_shares = <<200>>
    /\ performance_history[Len(performance_history)].accepted_shares = 200

\* Exactly one of the three fetches of the poll returned None.
OneFetchFailed ==
    /\ pc = "notify"
    /\ Cardinality({r \in {"status", "devices", "pools"} :
                      \/ r = "status" /\ ~status.present
                      \/ r = "devices" /\ ~devices.present
                      \/ r = "pools" /\ ~pools.present}) = 1

\* Every alert condition that holds on the fetched status has its alert.
StatusConditionsAlerted ==
    status.present =>
        IF ~status.success THEN HasAlert("API not responding", <<>>)
        ELSE /\ status.data.mining_state # <<"Running">>
                  => HasAlert("Mining not active", <<>>)
             /\ (status.data.total_hashrate = <<>>
                   \/ status.data.total_hashrate[1] < MinTotalHashrate)
                  => HasAlert("Low total hashrate", <<>>)
             /\ (status.data.hardware_errors # <<>>
                   /\ status.data.hardware_errors[1] > MaxHardwareErrors)
                  => HasAlert("High hardware errors", <<>>)

\* Every alert condition that holds on a fetched device has its alert.
DeviceConditionsAlerted ==
    devices.present =>
        \A i \in 1..Len(devices.data) :
            LET d == devices.data[i] IN
            /\ Hot(d) => HasAlert("high temperature", <<d.device_id>>)
            /\ (d.hashrate = <<>> \/ d.hashrate[1] < MinDeviceHashrate)
                  => HasAlert("low hashrate", <<d.device_id>>)
            /\ d.status # "Mining" => HasAlert("not mining", <<d.device_id>>)

\* The alert condition of the fetched pools, if it holds, has its alert.
PoolConditionsAlerted ==
    (pools.present /\ pools.data # <<>>
       /\ \A i \in 1..Len(pools.data) : pools.data[i].status # "Connected")
        => HasAlert("No pools connected", <<>>)

\* C7 as stated: when exactly one of the three fetches fails, whichever it is,
\* every alert condition that holds on the other two resources is alerted.
C7_Original ==
    OneFetchFailed =>
        StatusConditionsAlerted /\ DeviceConditionsAlerted /\ PoolConditionsAlerted

\* C7 amended: that holds when the failed fetch is the devices' or the pools'
\* and the status has a true success flag; when the status fetch is the one
\* that failed, the only alert is "API not responding".
C7_OtherResourcesEvaluated ==
    OneFetchFailed =>
        /\ Ok(status) =>
             StatusConditionsAlerted /\ DeviceConditionsAlerted /\ PoolConditionsAlerted
        /\ ~status.present =>
             (Len(alerts) = 1 /\ HasAlert("API not responding", <<>>))

\* C7 happens: the device fetch failed, the status is a faulty success and no
\* pool is connected: the status and pool alerts are there.
C7_Witness ==
    /\ OneFetchFailed
    /\ ~devices.present
    /\ Ok(status) /\ status.data.mining_state = <<"Stopped">>
    /\ pools.data = <<Pool("Disconnected")>>
    /\ HasAlert("Mining not active", <<>>)
    /\ HasAlert("No pools connected", <<>>)

\* check_alerts of this iteration has returned.
Detected == pc = "notify" \/ Notified

\* C16: nothing is remembered between iterations (alert_history and
\* last_status stay as __init__ left them), every alert condition that holds
\* on what this iteration fetched is in its alert list, whatever the earlier
\* iterations reported, and a non-empty list is handed to the notifier when a
\* configuration is present: a mining fault that check_alerts has been given
\* in each of the last N iterations is reported and notified in this one.
C16_NoSuppressionAcrossCycles ==
    /\ alert_history = <<>>
    /\ last_status = <<>>
    /\ Detected =>
          /\ StatusConditionsAlerted
          /\ ~ApiDown(status) => (DeviceConditionsAlerted /\ PoolConditionsAlerted)
          /\ cycle.persisting >= 1 => HasAlert("Mining not active", <<>>)
    /\ (Notified /\ cycle.persisting >= 1 /\ smtp_config) =>
          /\ Len(cycle.delivered) = 1
          /\ \E k \in 1..Len(cycle.delivered[1].digest) :
                cycle.delivered[1].digest[k].message.text = "Mining not active"

\* C16 happens: the mining fault was there in two consecutive iterations, and
\* the second one reported it again and handed it to the notifier.
C16_Witness ==
    /\ pc = "collect"
    /\ cycle.n = 2
    /\ cycle.persisting = 2
    /\ smtp_config
    /\ HasAlert("Mining not active", <<>>)
    /\ Len(cycle.delivered) = 1
    /\ cycle.delivered[1].digest = alerts

(***************************************************************************)
(* Properties of performance_history in both modes.                        *)
(***************************************************************************)
\* The timestamps of the history never decrease from one entry to the next.
Ordered(history) ==
    \A i \in 1..Len(history) : \A j \in i..Len(history) :
        fromisoformat(history[i].timestamp) <= fromisoformat(history[j].timestamp)

\* `after` is `before` without some first entries, followed by one new entry.
SuffixPlusOne(before, after) ==
    /\ after # <<>>
    /\ \E k \in 0..Len(before) :
          after = SubSeq(before, k + 1, Len(before)) \o <<after[Len(after)]>>

\* C19: after every step the history is in non-decreasing timestamp order with
\* the most recently appended sample last; a step that changes the history
\* is a call of collect_performance_metrics whose own status fetch succeeded,
\* and it leaves the history it found without some first entries, followed by
\* the new sample; every other step (alert detection, notification, report
\* generation, a collection whose fetch failed) leaves the history as it is.
C19_HistoryChangedOnlyByCollection ==
    [][/\ Ordered(performance_history')
       /\ performance_history' # <<>> =>
             performance_history'[Len(performance_history')].timestamp
                = cycle'.newest[1]
       /\ performance_history' # performance_history =>
             /\ \/ pc = "collect" /\ pc' = "log"
                \/ pc = "report_mode" /\ pc' = "report_mode"
             /\ cycle'.appended = 1
             /\ Ok(cycle'.collect_status[1])
             /\ SuffixPlusOne(performance_history, performance_history')]_vars

\* C19 happens: a sample was appended to a history of two, the older of which
\* was evicted while the other one stayed in front of the new sample.
C19_Witness ==
    /\ pc = "report_mode"
    /\ cycle.appended = 1
    /\ Len(cycle.start_history) = 2
    /\ Len(performance_history) = 2
    /\ performance_history[1] = cycle.start_history[2]
    /\ performance_history[2].timestamp = cycle.newest[1]
    /\ performance_history[1].timestamp # performance_history[2].timestamp

=============================================================================
